---------------------------- MODULE Spec2Model ----------------------------
(***************************************************************************)
(* Subset construction of regexp/dfa.go: dfaBuilder.build turns a Program  *)
(* (Jmp / Split / Range / Match instructions) into a DFA, one byte step at *)
(* a time, interning ordered Range/Match signatures in a cache and giving  *)
(* up when the state list outgrows the state limit.                        *)
(*                                                                         *)
(* Indices are 0-based as in the Go code; TLA+ sequences are 1-based, so   *)
(* the element with index i of a sequence q is q[i + 1].                   *)
(***************************************************************************)
EXTENDS Integers, Sequences, FiniteSets, TLC

\* ------------------------------------------------------------------ bounds
\* Longest Program of the exhaustive enumeration.
MaxLen == 2
\* Byte values are 0 .. NumBytes-1 (256 in the code: "for b := 0; b < 256").
NumBytes == 2
\* The state limit ranges over 1 .. MaxStateLimit (10000 in the code).
MaxStateLimit == 5
\* Longest input word of the NFA / DFA comparison.
MaxWord == 6

Bytes == 0 .. (NumBytes - 1)

\* ---------------------------------------------------------- the Program
\* nil of a *uint.
Nil == -1

OpJmp == "OpJmp"
OpSplit == "OpSplit"
OpRange == "OpRange"
OpMatch == "OpMatch"

\* inst values; fields a kind does not use hold Go's zero value.
Jmp(t) ==
  [op |-> OpJmp, to |-> t, splitA |-> 0, splitB |-> 0, rangeStart |-> 0, rangeEnd |-> 0]
Split(x, y) ==
  [op |-> OpSplit, to |-> 0, splitA |-> x, splitB |-> y, rangeStart |-> 0, rangeEnd |-> 0]
Range(lo, hi) ==
  [op |-> OpRange, to |-> 0, splitA |-> 0, splitB |-> 0, rangeStart |-> lo, rangeEnd |-> hi]
Match ==
  [op |-> OpMatch, to |-> 0, splitA |-> 0, splitB |-> 0, rangeStart |-> 0, rangeEnd |-> 0]

\* d.insts[ip]
InstAt(P, ip) == P[ip + 1]

\* The instructions a Program of length n can hold with every Jmp / Split
\* target in bounds (out-of-bounds targets are a precondition violation).
InstsOfLen(n) ==
  {Jmp(t) : t \in 0 .. (n - 1)}
    \cup {Split(x, y) : x \in 0 .. (n - 1), y \in 0 .. (n - 1)}
    \cup {Range(lo, hi) : lo \in Bytes, hi \in Bytes}
    \cup {Match}

AllPrograms == UNION {[1 .. n -> InstsOfLen(n)] : n \in 1 .. MaxLen}

\* n Range instructions covering every byte, then Match: n + 1 states.
Chain(n) == [i \in 1 .. (n + 1) |-> IF i <= n THEN Range(0, NumBytes - 1) ELSE Match]

\* a|b
ExampleAlt == <<Split(1, 3), Range(0, 0), Jmp(4), Range(1, 1), Match>>
\* a*
ExampleStar == <<Split(1, 3), Range(0, 0), Jmp(0), Match>>
\* a*b: a state with a transition to itself, one to another state and,
\* in the other state, reject slots.
ExampleStarThen == <<Split(1, 3), Range(0, 0), Jmp(0), Range(1, 1), Match>>
\* aa|bb with two Match instructions: a start state with two successors,
\* each with a successor of its own.
ExampleTree ==
  <<Split(1, 4), Range(0, 0), Range(0, 0), Match, Range(1, 1), Range(1, 1), Match>>
\* Two sibling states whose successors have signatures with the same first
\* member, [7 8] and [7].
ExampleShared ==
  <<Split(1, 4), Range(0, 0), Range(0, 0), Split(7, 8), Range(1, 1), Range(1, 1),
    Jmp(7), Range(0, 0), Match>>
\* Two closures with the members {5, 6}, entered in opposite orders.
ExampleOrder ==
  <<Split(1, 3), Range(0, 0), Split(5, 6), Range(1, 1), Split(6, 5), Range(0, 0), Match>>
\* A Range as the last instruction, next to a Range that leads to a new state.
ExampleFallOff == <<Split(1, 2), Range(1, 1), Range(0, 0)>>

\* Nested Splits: branch a of instruction 0 leads on to 1, 2, 3 and 5, branch
\* b to 4, which leads back to 3 (a diamond) and to 0 (a cycle).
ExampleNested ==
  <<Split(1, 4), Split(2, 3), Range(0, 0), Jmp(5), Split(3, 0), Match>>

\* a(a|a) with two Match instructions: after the first byte the closure has a
\* Split and two Ranges that cover the same byte.
ExampleTwice == <<Range(0, 0), Split(2, 4), Range(0, 0), Match, Range(0, 0), Match>>

ExamplePrograms ==
  {Chain(n) : n \in 0 .. MaxStateLimit}
    \cup {ExampleAlt, ExampleStar, ExampleStarThen, ExampleTree, ExampleShared,
          ExampleOrder, ExampleFallOff, ExampleNested, ExampleTwice}

Programs == AllPrograms \cup ExamplePrograms

\* ------------------------------------------------------------ sparseSet
\* A sparseSet is modelled by its dense array up to size: the members in
\* insertion order.
newSparseSet == <<>>

Contains(set, ip) == \E k \in 1 .. Len(set) : set[k] = ip

Add(set, ip) == IF Contains(set, ip) THEN set ELSE Append(set, ip)

\* set.Get(i)
Get(set, i) == set[i + 1]

\* -------------------------------------------------------------- dfa.add
\* A faulty variant of add: the branches of a Split are followed b first.
RECURSIVE addBFirst(_, _, _)
addBFirst(P, set, ip) ==
  IF ip >= Len(P)
    THEN [ok |-> FALSE, set |-> set]
    ELSE IF Contains(set, ip)
      THEN [ok |-> TRUE, set |-> set]
      ELSE LET s1 == Add(set, ip)
               i == InstAt(P, ip)
           IN  CASE i.op = OpJmp -> addBFirst(P, s1, i.to)
                 [] i.op = OpSplit ->
                      LET rb == addBFirst(P, s1, i.splitB)
                      IN  IF rb.ok THEN addBFirst(P, rb.set, i.splitA) ELSE rb
                 [] OTHER -> [ok |-> TRUE, set |-> s1]

\* The closure step.  ok is FALSE when the call indexes past the Program
\* (set.Contains(ip) / d.insts[ip] with ip >= len(d.insts)): a run-time panic.
RECURSIVE add(_, _, _)
add(P, set, ip) ==
  IF ip >= Len(P)
    THEN [ok |-> FALSE, set |-> set]
    ELSE IF Contains(set, ip)
      THEN [ok |-> TRUE, set |-> set]
      ELSE LET s1 == Add(set, ip)
               i == InstAt(P, ip)
           IN  CASE i.op = OpJmp -> add(P, s1, i.to)
                 [] i.op = OpSplit ->
                      LET ra == add(P, s1, i.splitA)
                      IN  IF ra.ok THEN add(P, ra.set, i.splitB) ELSE ra
                 [] OTHER -> [ok |-> TRUE, set |-> s1]

\* -------------------------------------------------------------- dfa.run
\* A faulty variant of InRange: the lower bound compared with < instead of <=.
InRangeStrict(i, b) == i.rangeStart < b /\ b <= i.rangeEnd

\* A faulty variant of InRange: the upper bound is not tested.
InRangeNoUpper(i, b) == i.rangeStart <= b

\* The range test of a Range instruction.
InRange(i, b) == i.rangeStart <= b /\ b <= i.rangeEnd

\* The loop of dfa.run from position k of from on.
RECURSIVE runLoop(_, _, _, _, _, _)
runLoop(P, from, k, to, isMatch, b) ==
  IF k >= Len(from)
    THEN [ok |-> TRUE, to |-> to, isMatch |-> isMatch]
    ELSE LET ip == Get(from, k)
             i == InstAt(P, ip)
         IN  CASE i.op = OpMatch -> runLoop(P, from, k + 1, to, TRUE, b)
               [] i.op = OpRange /\ InRange(i, b) ->
                    LET r == add(P, to, ip + 1)
                    IN  IF r.ok
                          THEN runLoop(P, from, k + 1, r.set, isMatch, b)
                          ELSE [ok |-> FALSE, to |-> r.set, isMatch |-> isMatch]
               [] OTHER -> runLoop(P, from, k + 1, to, isMatch, b)

run(P, from, b) == runLoop(P, from, 0, newSparseSet, FALSE, b)

\* ------------------------------------------------------- fmt.Sprintf("%v")
Digits == <<"0", "1", "2", "3", "4", "5", "6", "7", "8", "9">>

\* The decimal digits of n, most significant first.
RECURSIVE Decimal(_)
Decimal(n) == IF n < 10 THEN <<Digits[n + 1]>> ELSE Decimal(n \div 10) \o <<Digits[(n % 10) + 1]>>

RECURSIVE JoinDecimal(_, _)
JoinDecimal(q, k) ==
  IF k > Len(q)
    THEN <<>>
    ELSE (IF k > 1 THEN <<" ">> ELSE <<>>) \o Decimal(q[k]) \o JoinDecimal(q, k + 1)

\* A faulty variant of Sprintf: the members are formatted in ascending order.
SprintfSorted(q) ==
  <<"[">> \o JoinDecimal(SortSeq(q, LAMBDA x, y : x < y), 1) \o <<"]">>

\* A faulty variant of Sprintf: only the first element is formatted.
SprintfFirst(q) == <<"[">> \o JoinDecimal(SubSeq(q, 1, 1), 1) \o <<"]">>

\* fmt.Sprintf("%v", insts) of a []uint: "[1 3]", as its characters.
Sprintf(q) == <<"[">> \o JoinDecimal(q, 1) \o <<"]">>

\* ------------------------------------------------------------ cachedState
\* make([]*uint, 256): every slot nil.
EmptyNext == [x \in Bytes |-> Nil]

IsSignificant(P, ip) == InstAt(P, ip).op \in {OpRange, OpMatch}

\* A faulty variant of collect: a Match sets the flag but is not appended to insts.
RECURSIVE collectNoMatch(_, _, _, _, _)
collectNoMatch(P, set, k, q, isMatch) ==
  IF k >= Len(set)
    THEN [insts |-> q, isMatch |-> isMatch]
    ELSE LET ip == Get(set, k)
             op == InstAt(P, ip).op
         IN  CASE op = OpRange -> collectNoMatch(P, set, k + 1, Append(q, ip), isMatch)
               [] op = OpMatch -> collectNoMatch(P, set, k + 1, q, TRUE)
               [] OTHER -> collectNoMatch(P, set, k + 1, q, isMatch)

\* A faulty variant of collect: every member of the set is kept, the Jmp and
\* Split members too.
RECURSIVE collectAll(_, _, _, _, _)
collectAll(P, set, k, q, isMatch) ==
  IF k >= Len(set)
    THEN [insts |-> q, isMatch |-> isMatch]
    ELSE collectAll(P, set, k + 1, Append(q, Get(set, k)),
                    isMatch \/ InstAt(P, Get(set, k)).op = OpMatch)

\* The loop of cachedState from position k of set on: the Range / Match
\* members in order, and whether one of them is a Match.
RECURSIVE collect(_, _, _, _, _)
collect(P, set, k, q, isMatch) ==
  IF k >= Len(set)
    THEN [insts |-> q, isMatch |-> isMatch]
    ELSE LET ip == Get(set, k)
             op == InstAt(P, ip).op
         IN  CASE op = OpRange -> collect(P, set, k + 1, Append(q, ip), isMatch)
               [] op = OpMatch -> collect(P, set, k + 1, Append(q, ip), TRUE)
               [] OTHER -> collect(P, set, k + 1, q, isMatch)

\* A faulty variant of NewState: the match field is left at its zero value.
NewStateNoMatch(q, isMatch) == [insts |-> q, next |-> EmptyNext, match |-> FALSE]

\* The DFA state cachedState appends on a cache miss.
NewState(q, isMatch) == [insts |-> q, next |-> EmptyNext, match |-> isMatch]

\* A faulty variant of CacheHit: the zero value of the map stands for "absent", so
\* state 0 is never found.
CacheHitNonZero(c, k) == k \in DOMAIN c /\ c[k] # 0

\* The cache lookup: does key k name a state already?
CacheHit(c, k) == k \in DOMAIN c

\* cachedState(set) on the state list sts and the cache c: the state list and
\* cache afterwards and the returned *uint (Nil for an empty signature).
cachedState(P, sts, c, set) ==
  LET f == collect(P, set, 0, <<>>, FALSE)
      k == Sprintf(f.insts)
  IN  IF Len(f.insts) = 0
        THEN [states |-> sts, cache |-> c, ns |-> Nil]
        ELSE IF CacheHit(c, k)
          THEN [states |-> sts, cache |-> c, ns |-> c[k]]
          ELSE LET appended == Append(sts, NewState(f.insts, f.isMatch))
                   newV == Len(appended) - 1
               IN  [states |-> appended, cache |-> (k :> newV) @@ c, ns |-> newV]

\* A faulty variant of addAll: the signature is walked from its end.
RECURSIVE addAllReversed(_, _, _)
addAllReversed(set, q, k) ==
  IF k > Len(q) THEN set ELSE addAllReversed(Add(set, q[Len(q) + 1 - k]), q, k + 1)

\* --------------------------------------------------------------- runState
\* A faulty variant of addAll: the loop stops one member short of the signature.
RECURSIVE addAllButLast(_, _, _)
addAllButLast(set, q, k) ==
  IF k >= Len(q) THEN set ELSE addAllButLast(Add(set, q[k]), q, k + 1)

\* cur.Clear() and cur.Add(ip) for every ip of the state's signature.
RECURSIVE addAll(_, _, _)
addAll(set, q, k) == IF k > Len(q) THEN set ELSE addAll(Add(set, q[k]), q, k + 1)

\* A faulty variant of SetNext: the slot written is that of the newest state.
SetNextNewest(sts, state, b, ns) == [sts EXCEPT ![Len(sts)].next[b] = ns]

\* The slot runState writes: d.dfa.states[state].next[b] = nextState.
SetNext(sts, state, b, ns) == [sts EXCEPT ![state + 1].next[b] = ns]

\* runState(cur, next, state, b): ok is FALSE when dfa.run panics.
runState(P, sts, c, state, b) ==
  LET from == addAll(newSparseSet, sts[state + 1].insts, 1)
      r == run(P, from, b)
      cs == cachedState(P, sts, c, r.to)
  IN  IF r.ok
        THEN [ok |-> TRUE, states |-> SetNext(cs.states, state, b, cs.ns),
              cache |-> cs.cache, ns |-> cs.ns, cur |-> from, next |-> r.to]
        ELSE [ok |-> FALSE, states |-> sts, cache |-> c, ns |-> Nil,
              cur |-> from, next |-> r.to]

\* ------------------------------------------------------------- uintpStack
\* A faulty variant of Push: the value overwrites the top element instead of being
\* appended.
PushOver(stk, v) == IF stk = <<>> THEN <<v>> ELSE [stk EXCEPT ![Len(stk)] = v]

Push(stk, v) == Append(stk, v)

\* Pop: the stack without its last element and that element, or Nil.
Pop(stk) ==
  IF Len(stk) < 1
    THEN [stack |-> stk, v |-> Nil]
    ELSE [stack |-> SubSeq(stk, 1, Len(stk) - 1), v |-> stk[Len(stk)]]

\* A worklist that hands out the element at position k instead of the last.
PopAt(stk, k) ==
  [stack |-> SubSeq(stk, 1, k - 1) \o SubSeq(stk, k + 1, Len(stk)), v |-> stk[k]]

\* The test of build's "if _, ok := seen[*ns]; !ok".
Unseen(sn, ns) == ns \notin sn

\* A faulty variant of OverLimit: the comparison allows one state too many.
OverLimitByOne(sts, limit) == Len(sts) > limit + 1

\* The test of build's limit check: len(d.dfa.states) > StateLimit.
OverLimit(sts, limit) == Len(sts) > limit

\* ------------------------------------------------------------------ state
VARIABLES
  insts,       \* d.dfa.insts: the Program
  StateLimit,  \* the state limit of this build
  states,      \* d.dfa.states
  cache,       \* d.cache: Sprintf of a signature -> state index
  cur,         \* build's scratch set cur
  next,        \* build's scratch set next
  stack,       \* build's local uintpStack "states"
  seen,        \* build's local map "seen", as its key set
  s,           \* build's local s: the state being processed, or Nil
  b,           \* build's loop variable b
  pc,          \* "start", "loop", "ret", "done", "err", "panic"
  built,       \* the DFAs (state lists) returned so far, one per build
  popCount,    \* history: how often each state index was popped
  filled,      \* history: the slots of each state that runState has written
  closeIp,     \* one call of dfa.add followed step by step: its argument ip
  closeFrom,   \* ... the set as it was when the call was made
  closeSet,    \* ... the set as it is now
  frames,      \* ... the activations of dfa.add on the Go stack, innermost last
  expanded     \* history: how often each index got past the Contains test

\* The variables of the dfa.add call that is followed step by step.
closeVars == <<closeIp, closeFrom, closeSet, frames, expanded>>

vars ==
  <<insts, StateLimit, states, cache, cur, next, stack, seen, s, b, pc, built,
    popCount, filled, closeIp, closeFrom, closeSet, frames, expanded>>

\* newDfaBuilder(insts), before build is called.
Init ==
  /\ insts \in Programs
  /\ StateLimit \in 1 .. MaxStateLimit
  /\ states = <<>>
  /\ cache = <<>>
  /\ cur = newSparseSet
  /\ next = newSparseSet
  /\ stack = <<>>
  /\ seen = {}
  /\ s = Nil
  /\ b = 0
  /\ pc = "start"
  /\ built = <<>>
  /\ popCount = <<>>
  /\ filled = <<>>
  /\ closeIp = Nil
  /\ closeFrom = newSparseSet
  /\ closeSet = newSparseSet
  /\ frames = <<>>
  /\ expanded = <<>>

\* The history variables follow the state list as it grows.
RECURSIVE Grow(_, _, _)
Grow(q, n, v) == IF Len(q) >= n THEN q ELSE Grow(Append(q, v), n, v)

CountPop(pcnt, n, v) ==
  LET g == Grow(pcnt, n, 0)
  IN  IF v = Nil THEN g ELSE [g EXCEPT ![v + 1] = @ + 1]

\* build up to the first Pop: the closure of instruction 0 is interned and
\* pushed, then popped again.
BuildStart ==
  /\ pc = "start"
  /\ LET r == add(insts, newSparseSet, 0)
         cs == cachedState(insts, states, cache, r.set)
         p == Pop(<<cs.ns>>)
     IN  /\ cur' = r.set
         /\ states' = cs.states
         /\ cache' = cs.cache
         /\ stack' = p.stack
         /\ seen' = {}
         /\ s' = p.v
         /\ b' = 0
         /\ pc' = IF p.v = Nil THEN "ret" ELSE "loop"
         /\ popCount' = CountPop(popCount, Len(cs.states), p.v)
         /\ filled' = Grow(filled, Len(cs.states), {})
  /\ UNCHANGED <<closeVars, insts, StateLimit, next, built>>

\* What one pass of the loop body leaves behind when runState returns r.
StepEffects(r) ==
  /\ states' = r.states
  /\ cache' = r.cache
  /\ cur' = r.cur
  /\ next' = r.next
  /\ IF r.ns # Nil /\ Unseen(seen, r.ns)
       THEN seen' = seen \cup {r.ns} /\ stack' = Push(stack, r.ns)
       ELSE UNCHANGED <<seen, stack>>
  /\ popCount' = Grow(popCount, Len(r.states), 0)
  /\ filled' = [Grow(filled, Len(r.states), {}) EXCEPT ![s + 1] = @ \cup {b}]

\* One pass of "for b := 0; b < 256; b++" that stays within the limit.
Step ==
  /\ pc = "loop"
  /\ b < NumBytes
  /\ LET r == runState(insts, states, cache, s, b)
     IN  /\ r.ok
         /\ ~OverLimit(r.states, StateLimit)
         /\ StepEffects(r)
  /\ b' = b + 1
  /\ UNCHANGED <<closeVars, insts, StateLimit, s, pc, built>>

\* One pass after which the limit check fires: return nil, ErrTooManyStates.
StepLimit ==
  /\ pc = "loop"
  /\ b < NumBytes
  /\ LET r == runState(insts, states, cache, s, b)
     IN  /\ r.ok
         /\ OverLimit(r.states, StateLimit)
         /\ StepEffects(r)
  /\ pc' = "err"
  /\ UNCHANGED <<closeVars, insts, StateLimit, s, b, built>>

\* One pass in which dfa.run indexes past the Program: the build panics.
StepPanic ==
  /\ pc = "loop"
  /\ b < NumBytes
  /\ LET r == runState(insts, states, cache, s, b)
     IN  /\ ~r.ok
         /\ cur' = r.cur
         /\ next' = r.next
  /\ pc' = "panic"
  /\ UNCHANGED <<closeVars, insts, StateLimit, states, cache, stack, seen, s, b, built,
                 popCount, filled>>

\* "states, s = states.Pop()" at the end of the loop body; p is the Pop.
PopEffects(p) ==
  /\ stack' = p.stack
  /\ s' = p.v
  /\ b' = 0
  /\ pc' = IF p.v = Nil THEN "ret" ELSE "loop"
  /\ popCount' = CountPop(popCount, Len(states), p.v)
  /\ UNCHANGED <<closeVars, insts, StateLimit, states, cache, cur, next, seen, built, filled>>

PopNext ==
  /\ pc = "loop"
  /\ b = NumBytes
  /\ PopEffects(Pop(stack))

\* "return d.dfa, nil"
Return ==
  /\ pc = "ret"
  /\ built' = Append(built, states)
  /\ pc' = "done"
  /\ UNCHANGED <<closeVars, insts, StateLimit, states, cache, cur, next, stack, seen, s, b,
                 popCount, filled>>

Next == BuildStart \/ Step \/ StepLimit \/ StepPanic \/ PopNext \/ Return

Spec == Init /\ [][Next]_vars

\* ------------------------------------------------- any worklist order
\* The same build with a worklist that may hand out any pending state, run
\* twice on the same Program.
PopAny ==
  /\ pc = "loop"
  /\ b = NumBytes
  /\ \/ /\ stack = <<>>
        /\ PopEffects(Pop(stack))
     \/ \E k \in 1 .. Len(stack) : PopEffects(PopAt(stack, k))

\* A fresh newDfaBuilder(insts) on the same Program.
Rebuild ==
  /\ pc = "done"
  /\ Len(built) < 2
  /\ states' = <<>>
  /\ cache' = <<>>
  /\ cur' = newSparseSet
  /\ next' = newSparseSet
  /\ stack' = <<>>
  /\ seen' = {}
  /\ s' = Nil
  /\ b' = 0
  /\ pc' = "start"
  /\ popCount' = <<>>
  /\ filled' = <<>>
  /\ UNCHANGED <<closeVars, insts, StateLimit, built>>

NextOrder == BuildStart \/ Step \/ StepLimit \/ StepPanic \/ PopAny \/ Return \/ Rebuild

SpecOrder == Init /\ [][NextOrder]_vars

\* ------------------------------------------------- dfa.add, step by step
\* One call d.add(set, ip) of the builder together with the recursive calls it
\* makes.  A frame is an activation of dfa.add: its ip and where it stands:
\* "enter" before the Contains test, "splitB" between the two calls of a
\* Split, "ret" with its last call outstanding.  The set of the call is empty
\* or holds the closure of an earlier call, as the set "to" of dfa.run does.
Frame(ip, at) == [ip |-> ip, at |-> at]

Top == frames[Len(frames)]

Caller == SubSeq(frames, 1, Len(frames) - 1)

InitClose ==
  /\ insts \in Programs
  /\ closeIp \in 0 .. (Len(insts) - 1)
  /\ closeFrom \in {newSparseSet} \cup {add(insts, newSparseSet, 0).set}
  /\ closeSet = closeFrom
  /\ frames = <<Frame(closeIp, "enter")>>
  /\ expanded = [k \in 1 .. Len(insts) |-> 0]
  /\ StateLimit = 1
  /\ states = <<>>
  /\ cache = <<>>
  /\ cur = newSparseSet
  /\ next = newSparseSet
  /\ stack = <<>>
  /\ seen = {}
  /\ s = Nil
  /\ b = 0
  /\ pc = "start"
  /\ built = <<>>
  /\ popCount = <<>>
  /\ filled = <<>>

buildVars ==
  <<insts, StateLimit, states, cache, cur, next, stack, seen, s, b, pc, built,
    popCount, filled>>

\* "if set.Contains(ip) { return }"
AddContained ==
  /\ frames # <<>>
  /\ Top.at = "enter"
  /\ Contains(closeSet, Top.ip)
  /\ frames' = Caller
  /\ UNCHANGED <<buildVars, closeIp, closeFrom, closeSet, expanded>>

\* A faulty variant of AddExpand: the activation does not test Contains.
AddExpandUntested ==
  /\ frames # <<>>
  /\ Top.at = "enter"
  /\ closeSet' = Add(closeSet, Top.ip)
  /\ expanded' = [expanded EXCEPT ![Top.ip + 1] = @ + 1]
  /\ LET i == InstAt(insts, Top.ip)
     IN  frames' =
           CASE i.op = OpJmp ->
                  Caller \o <<Frame(Top.ip, "ret"), Frame(i.to, "enter")>>
             [] i.op = OpSplit ->
                  Caller \o <<Frame(Top.ip, "splitB"), Frame(i.splitA, "enter")>>
             [] OTHER -> Caller
  /\ UNCHANGED <<buildVars, closeIp, closeFrom>>

\* "set.Add(ip)" and the switch on the instruction, up to its first call.
AddExpand ==
  /\ frames # <<>>
  /\ Top.at = "enter"
  /\ ~Contains(closeSet, Top.ip)
  /\ closeSet' = Add(closeSet, Top.ip)
  /\ expanded' = [expanded EXCEPT ![Top.ip + 1] = @ + 1]
  /\ LET i == InstAt(insts, Top.ip)
     IN  frames' =
           CASE i.op = OpJmp ->
                  Caller \o <<Frame(Top.ip, "ret"), Frame(i.to, "enter")>>
             [] i.op = OpSplit ->
                  Caller \o <<Frame(Top.ip, "splitB"), Frame(i.splitA, "enter")>>
             [] OTHER -> Caller
  /\ UNCHANGED <<buildVars, closeIp, closeFrom>>

\* "d.add(set, i.splitB)", after d.add(set, i.splitA) has returned.
AddSplitB ==
  /\ frames # <<>>
  /\ Top.at = "splitB"
  /\ frames' = Caller \o <<Frame(Top.ip, "ret"),
                           Frame(InstAt(insts, Top.ip).splitB, "enter")>>
  /\ UNCHANGED <<buildVars, closeIp, closeFrom, closeSet, expanded>>

\* The return of an activation whose last call has returned.
AddReturn ==
  /\ frames # <<>>
  /\ Top.at = "ret"
  /\ frames' = Caller
  /\ UNCHANGED <<buildVars, closeIp, closeFrom, closeSet, expanded>>

NextClose == AddContained \/ AddExpand \/ AddSplitB \/ AddReturn

\* A call that can take a step takes it: Go runs the one goroutine of a build.
SpecClose == InitClose /\ [][NextClose]_vars /\ WF_vars(NextClose)

\* ------------------------------------------------- reference definitions
\* The ordered Range / Match members of a set of instruction indices.
Sig(P, set) == SelectSeq(set, LAMBDA ip : IsSignificant(P, ip))

HasMatch(P, set) == \E k \in 1 .. Len(set) : InstAt(P, set[k]).op = OpMatch

\* The closure of instruction 0.
StartSet(P) == add(P, <<>>, 0).set

\* The byte step of the Program's NFA: the closure of the successors i+1 of
\* the Range members i of from with lo <= c <= hi, in the order of from.  A
\* successor past the end of the Program is no instruction and adds nothing.
RECURSIVE StepSet(_, _, _, _, _)
StepSet(P, from, k, to, c) ==
  IF k > Len(from)
    THEN to
    ELSE LET ip == from[k]
             i == InstAt(P, ip)
             covers == i.op = OpRange /\ i.rangeStart <= c /\ c <= i.rangeEnd
         IN  StepSet(P, from, k + 1,
                     IF covers /\ ip + 1 < Len(P) THEN add(P, to, ip + 1).set ELSE to, c)

NfaStep(P, from, c) == StepSet(P, from, 1, <<>>, c)

\* One step of the walk of DFA D (a state list) from state st; Nil is "no
\* state": a reject transition was taken.
DfaStep(D, st, c) == IF st = Nil THEN Nil ELSE D[st + 1].next[c]

\* The walk starts in state 0, in no state when D has none.
DfaStart(D) == IF Len(D) > 0 THEN 0 ELSE Nil

\* Where the words of n bytes or fewer lead: the pairs <<DFA state of the
\* walk, set of the NFA simulation>>, ends being the pairs of the words of the
\* length reached so far.
RECURSIVE RunsUpTo(_, _, _, _)
RunsUpTo(P, D, ends, n) ==
  IF n = 0
    THEN ends
    ELSE ends \cup
           RunsUpTo(P, D,
                    {<<DfaStep(D, e[1], c), NfaStep(P, e[2], c)>> : e \in ends, c \in Bytes},
                    n - 1)

Runs(P, D) == RunsUpTo(P, D, {<<DfaStart(D), StartSet(P)>>}, MaxWord)

DfaMatches(D, st) == st # Nil /\ D[st + 1].match

\* C1: after a successful build, for every word of at most MaxWord bytes,
\* the DFA walk from state 0 ends on a match state exactly when the Program's
\* NFA simulation (closure of instruction 0, then one byte step per byte)
\* ends with a set holding a Match; a walk that takes a reject transition
\* does not match.
C1_DfaEquivalentToNfa ==
  pc = "done" =>
    \A e \in Runs(insts, built[1]) : DfaMatches(built[1], e[1]) = HasMatch(insts, e[2])

\* A finished build whose DFA accepts a word in a state other than the start
\* state, and on some word takes a reject transition.
C1_Witness ==
  /\ pc = "done"
  /\ \E e \in Runs(insts, built[1]) : e[1] # 0 /\ DfaMatches(built[1], e[1])
  /\ \E e \in Runs(insts, built[1]) : e[1] = Nil /\ ~HasMatch(insts, e[2])

\* The index of the state of D with signature q, Nil when q is empty.
IndexOfSig(D, q) ==
  IF q = <<>> THEN Nil ELSE CHOOSE i \in 0 .. (Len(D) - 1) : D[i + 1].insts = q

\* C2: after a successful build, next[c] of every state i is the index of
\* the state whose signature is the ordered Range / Match members of the
\* closure of {j+1 : j in signature(i), j a Range with lo <= c <= hi}, and
\* reject when that closure has no such member.
C2_TransitionIsClosureOfStep ==
  pc = "done" =>
    \A i \in 0 .. (Len(states) - 1) : \A c \in Bytes :
      LET q == Sig(insts, NfaStep(insts, states[i + 1].insts, c))
      IN  /\ q # <<>> => \E j \in 0 .. (Len(states) - 1) : states[j + 1].insts = q
          /\ states[i + 1].next[c] = IndexOfSig(states, q)

\* A finished build with a transition to another state, a transition back to
\* the state itself and a reject slot.
C2_Witness ==
  /\ pc = "done"
  /\ \E i \in 0 .. (Len(states) - 1) : \E c \in Bytes :
       states[i + 1].next[c] \notin {Nil, i}
  /\ \E i \in 0 .. (Len(states) - 1) : \E c \in Bytes : states[i + 1].next[c] = i
  /\ \E i \in 0 .. (Len(states) - 1) : \E c \in Bytes : states[i + 1].next[c] = Nil

\* The closure sets reachable from the closure of instruction 0 by byte
\* steps: todo is still to be expanded, acc has been.
RECURSIVE ReachFrom(_, _, _)
ReachFrom(P, todo, acc) ==
  IF todo = {}
    THEN acc
    ELSE LET S == CHOOSE x \in todo : TRUE
             acc2 == acc \cup {S}
             succ == {NfaStep(P, S, c) : c \in Bytes}
         IN  ReachFrom(P, (todo \cup succ) \ acc2, acc2)

ReachSets(P) == ReachFrom(P, {StartSet(P)}, {})

\* The distinct reachable ordered signatures.
ReachSigs(P) == {Sig(P, S) : S \in ReachSets(P)} \ {<<>>}

NumSigs(P) == Cardinality(ReachSigs(P))

StateIndices == 0 .. (Len(states) - 1)

\* C3: a build of a Program with more distinct reachable ordered signatures
\* than the state limit ends with the too-many-states error, and the error
\* comes with no DFA.
C3_OverLimitEndsWithError ==
  /\ pc \in {"done", "panic"} => NumSigs(insts) <= StateLimit
  /\ pc = "err" => built = <<>>

\* C4: a build of a Program with at most as many distinct reachable ordered
\* signatures as the state limit does not fail: it ends with a DFA and no
\* error.
C4_WithinLimitEndsWithDfa ==
  NumSigs(insts) <= StateLimit =>
    /\ pc \notin {"err", "panic"}
    /\ pc = "done" => built = <<states>>

\* C5: no two states of the DFA have the same ordered signature, at every
\* point of a build, and a finished build has as many states as there are
\* distinct reachable ordered signatures.
C5_OneStatePerSignature ==
  /\ \A i, j \in StateIndices : states[i + 1].insts = states[j + 1].insts => i = j
  /\ pc = "done" => Len(states) = NumSigs(insts)

\* A finished build in which two different (state, byte) pairs lead to the
\* same state: fewer states than pairs explored.
C5_Witness ==
  /\ pc = "done"
  /\ \E i, j \in StateIndices : \E c, d \in Bytes :
       /\ <<i, c>> # <<j, d>>
       /\ states[i + 1].next[c] # Nil
       /\ states[i + 1].next[c] = states[j + 1].next[d]

\* C6: a state that has been popped and has had its transitions filled is
\* neither popped nor pushed again.
C6_NoStateProcessedTwice ==
  /\ \A i \in StateIndices : popCount[i + 1] <= 1
  /\ \A k \in 1 .. Len(stack) : filled[stack[k] + 1] # Bytes

\* C7: when build returns a DFA, every state of its state list has been
\* popped and has had the transition of every byte value recorded.
C7_EveryStateProcessed ==
  pc = "done" =>
    /\ built[Len(built)] = states
    /\ \A i \in StateIndices : popCount[i + 1] >= 1 /\ filled[i + 1] = Bytes

\* A finished build of three states or more, one of them processed with
\* every slot left reject.
C7_Witness ==
  /\ pc = "done"
  /\ Len(states) >= 3
  /\ \E i \in StateIndices :
       /\ popCount[i + 1] >= 1
       /\ \A c \in Bytes : states[i + 1].next[c] = Nil

\* A relabelling f of the states of DFA A onto those of DFA B that keeps the
\* start state, every transition, every reject slot and every match flag.
IsIsomorphism(f, A, B) ==
  /\ \A i, j \in DOMAIN f : f[i] = f[j] => i = j
  /\ 0 \in DOMAIN f => f[0] = 0
  /\ \A i \in DOMAIN f :
       /\ A[i + 1].match = B[f[i] + 1].match
       /\ \A c \in Bytes :
            IF A[i + 1].next[c] = Nil
              THEN B[f[i] + 1].next[c] = Nil
              ELSE B[f[i] + 1].next[c] = f[A[i + 1].next[c]]

Isomorphic(A, B) ==
  /\ Len(A) = Len(B)
  /\ \E f \in [0 .. (Len(A) - 1) -> 0 .. (Len(A) - 1)] : IsIsomorphism(f, A, B)

\* C8: two successful builds of one Program, each with its own order of
\* handing out pending states, return DFAs that are isomorphic up to state
\* relabelling.
C8_BuildsIsomorphic == Len(built) = 2 => Isomorphic(built[1], built[2])

\* Two finished builds that numbered their states differently.
C8_Witness ==
  /\ Len(built) = 2
  /\ \E i \in 0 .. (Len(built[1]) - 1) : built[1][i + 1].insts # built[2][i + 1].insts

\* Does a Range of signature q cover byte c?
Covered(P, q, c) ==
  \E k \in 1 .. Len(q) :
    /\ InstAt(P, q[k]).op = OpRange
    /\ InstAt(P, q[k]).rangeStart <= c
    /\ c <= InstAt(P, q[k]).rangeEnd

\* C9: the transition recorded for a state and a byte that no Range of the
\* state's signature covers is reject.
C9_UncoveredByteRejects ==
  \A i \in StateIndices : \A c \in Bytes :
    ~Covered(insts, states[i + 1].insts, c) => states[i + 1].next[c] = Nil

\* A processed state with a covered byte that leads to a state and an
\* uncovered byte.
C9_Witness ==
  \E i \in StateIndices : \E c, d \in Bytes :
    /\ filled[i + 1] = Bytes
    /\ ~Covered(insts, states[i + 1].insts, c)
    /\ states[i + 1].next[d] # Nil

\* C10 as claimed: for every Program the closure of instruction 0 is
\* interned as state 0, which is the first state processed.
C10_StartStateAlways ==
  pc # "start" =>
    /\ Len(states) >= 1
    /\ states[1].insts = Sig(insts, StartSet(insts))
    /\ popCount[1] >= 1
    /\ \A i \in StateIndices : filled[i + 1] # {} => 0 \in filled[1]

\* C10 amended: when the closure of instruction 0 has a Range or Match
\* member, it is interned as state 0, the first state processed; when it has
\* none, cachedState returns nil, no state is created and build returns a
\* DFA without states.
C10_StartStateWhenSignificant ==
  pc # "start" =>
    IF Sig(insts, StartSet(insts)) # <<>>
      THEN /\ Len(states) >= 1
           /\ states[1].insts = Sig(insts, StartSet(insts))
           /\ popCount[1] >= 1
           /\ \A i \in StateIndices : filled[i + 1] # {} => 0 \in filled[1]
      ELSE states = <<>> /\ pc \in {"ret", "done"}

\* A finished build of two states or more whose start closure holds Jmp or
\* Split members next to its signature.
C10_Witness ==
  /\ pc = "done"
  /\ Len(states) >= 2
  /\ Sig(insts, StartSet(insts)) # <<>>
  /\ Len(StartSet(insts)) > Len(Sig(insts, StartSet(insts)))


\* C11: at every point of a build and in every returned DFA, the match flag
\* of a state is true exactly when its signature holds the index of a Match
\* instruction.
MatchFlagRight(P, D) ==
  \A i \in 1 .. Len(D) :
    D[i].match = (\E k \in 1 .. Len(D[i].insts) : InstAt(P, D[i].insts[k]).op = OpMatch)

C11_MatchFlagIffMatchInSignature ==
  /\ MatchFlagRight(insts, states)
  /\ \A n \in 1 .. Len(built) : MatchFlagRight(insts, built[n])

\* A returned DFA with a matching state whose signature also has a Range, and
\* a state that does not match.
C11_Witness ==
  /\ pc = "done"
  /\ \E i, j \in 1 .. Len(built[1]) :
       /\ built[1][i].match
       /\ Len(built[1][i].insts) > 1
       /\ ~built[1][j].match

\* C12: at every step of a build every signature is non-empty, repeats no
\* index and holds indices of Range and Match instructions only; and a byte
\* step whose result set has no Range or Match member appends no state.
SignatureRight(P, q) ==
  /\ q # <<>>
  /\ \A k, l \in 1 .. Len(q) : q[k] = q[l] => k = l
  /\ \A k \in 1 .. Len(q) : InstAt(P, q[k]).op \in {OpRange, OpMatch}

C12_SignaturesSignificant ==
  [][/\ \A i \in 1 .. Len(states') : SignatureRight(insts', states'[i].insts)
     /\ (pc = "loop" /\ pc' = "loop" /\ b' = b + 1
           /\ \A k \in 1 .. Len(next') : InstAt(insts, next'[k]).op \in {OpJmp, OpSplit})
        => states' = [states EXCEPT ![s + 1].next[b] = Nil]]_vars

\* A byte step has produced a non-empty set of Jmp / Split members only: the
\* slot holds nil and the state list has no state for it.
C12_Witness ==
  /\ pc = "loop"
  /\ b > 0
  /\ next # <<>>
  /\ \A k \in 1 .. Len(next) : InstAt(insts, next[k]).op \in {OpJmp, OpSplit}
  /\ states[s + 1].next[b - 1] = Nil
  /\ \A i \in 1 .. Len(states) : states[i].insts # <<>>


\* The successors of an instruction in the order dfa.add calls them.
Succ(P, ip) ==
  LET i == InstAt(P, ip)
  IN  CASE i.op = OpJmp -> <<i.to>>
        [] i.op = OpSplit -> <<i.splitA, i.splitB>>
        [] OTHER -> <<>>

SuccSet(P, ip) == {Succ(P, ip)[n] : n \in 1 .. Len(Succ(P, ip))}

\* The edges <<u, n>> (n-th successor of u) that lead to z from an index that
\* this call has expanded.
EdgesInto(z) ==
  {e \in (0 .. (Len(insts) - 1)) \X {1, 2} :
     /\ expanded[e[1] + 1] > 0
     /\ e[2] <= Len(Succ(insts, e[1]))
     /\ Succ(insts, e[1])[e[2]] = z}

\* C13: one call of the closure and the calls it makes come to an end on
\* every Program, cyclic ones included, and no instruction index is expanded
\* (marked present, its successors followed) more than once during the call.
C13_CloseTerminatesExpandingOnce ==
  /\ <>(frames = <<>>)
  /\ [](\A k \in 1 .. Len(expanded) : expanded[k] <= 1)

\* A call has returned after it met an index it had expanded itself a second
\* time, on a cycle or through a diamond.
C13_Witness ==
  /\ closeIp # Nil
  /\ frames = <<>>
  /\ \E z \in 0 .. (Len(insts) - 1) :
       /\ expanded[z + 1] = 1
       /\ Cardinality(EdgesInto(z)) >= 2

\* The indices that can be reached from the indices of S along Jmp.to,
\* Split.a and Split.b edges, S included.
RECURSIVE ReachIdx(_, _)
ReachIdx(P, S) ==
  LET T == S \cup UNION {SuccSet(P, u) : u \in S}
  IN  IF T = S THEN S ELSE ReachIdx(P, T)

\* q lists indices in depth-first pre-order from i, branch a before branch b:
\* q starts with i, and every later member is the first successor not listed
\* yet of the latest member listed that still has one.
IsPreOrder(P, q, i) ==
  /\ q # <<>>
  /\ q[1] = i
  /\ \A k \in 2 .. Len(q) :
       LET prev == {q[m] : m \in 1 .. (k - 1)}
           open == {j \in 1 .. (k - 1) : SuccSet(P, q[j]) \ prev # {}}
       IN  /\ open # {}
           /\ LET j == CHOOSE x \in open : \A y \in open : y <= x
                  su == Succ(P, q[j])
                  n == CHOOSE x \in 1 .. Len(su) :
                         /\ su[x] \notin prev
                         /\ \A y \in 1 .. (x - 1) : su[y] \in prev
              IN  q[k] = su[n]

\* C17: a closure call made on an empty set leaves in it exactly the indices
\* reachable from its argument along Jmp / Split edges, the argument
\* included, in depth-first pre-order with branch a before branch b; the
\* closure the builder computes in one go is that same set.
C17_CloseIsPreOrderOfReachable ==
  (closeIp # Nil /\ frames = <<>> /\ closeFrom = newSparseSet) =>
    /\ {closeSet[k] : k \in 1 .. Len(closeSet)} = ReachIdx(insts, {closeIp})
    /\ Len(closeSet) = Cardinality(ReachIdx(insts, {closeIp}))
    /\ IsPreOrder(insts, closeSet, closeIp)
    /\ add(insts, newSparseSet, closeIp).set = closeSet

\* A call on an empty set has returned, of a Split whose branch a leads to
\* further indices that precede the index of branch b in the set.
C17_Witness ==
  /\ closeIp # Nil
  /\ frames = <<>>
  /\ closeFrom = newSparseSet
  /\ InstAt(insts, closeIp).op = OpSplit
  /\ Len(closeSet) >= 4
  /\ closeSet[2] = InstAt(insts, closeIp).splitA
  /\ \E k \in 4 .. Len(closeSet) : closeSet[k] = InstAt(insts, closeIp).splitB


\* The closure set the build handed to cachedState last: the closure of
\* instruction 0 in cur until the first byte step of the first state, the
\* result of the last byte step in next from then on.  (When a state has just
\* been popped, next still holds the set of the step before the pop, and cur
\* the signature that step was made from.)
Interned == IF pc = "loop" /\ b = 0 THEN {cur} ELSE {next}

\* Sets cachedState may be handed: the scratch sets of the build as they are
\* and the closure of every single instruction.
CloseSets == {cur, next} \cup {add(insts, newSparseSet, j).set : j \in 0 .. (Len(insts) - 1)}

Members(q) == {q[k] : k \in 1 .. Len(q)}

\* C14: at every point of a build, cachedState called for the set the build
\* interned last and then for any other set, both with Range / Match members,
\* returns the same state index exactly when the ordered lists of those
\* members are equal element by element; lists with the same members in
\* another order get two indices.
C14_SameIndexIffSameOrderedList ==
  \A S \in Interned :
    LET r1 == cachedState(insts, states, cache, S)
    IN  r1.ns # Nil =>
          /\ r1.states[r1.ns + 1].insts = Sig(insts, S)
          /\ \A T \in CloseSets :
               LET r2 == cachedState(insts, r1.states, r1.cache, T)
               IN  r2.ns # Nil =>
                     /\ (r1.ns = r2.ns) = (Sig(insts, S) = Sig(insts, T))
                     /\ r2.states[r2.ns + 1].insts = Sig(insts, T)

\* A returned DFA holds two states whose signatures have the same members in
\* different orders.
C14_Witness ==
  /\ pc = "done"
  /\ \E i, j \in 1 .. Len(built[1]) :
       /\ i # j
       /\ Members(built[1][i].insts) = Members(built[1][j].insts)
       /\ built[1][i].insts # built[1][j].insts


\* C15: every build of a Program whose Jmp / Split targets are in bounds comes
\* to an end: eventually the DFA is returned (worklist empty) or the limit
\* check fires and the error is returned.
\* A build is at rest when none of its steps can be taken: it has not been
\* started, is not in its loop and is not about to return.  In its finite form
\* the claim says: a build at rest has returned the DFA or the error.
C15_BuildEndsWithDfaOrError ==
  pc \notin {"start", "loop", "ret"} => pc \in {"done", "err"}


\* C16: the limit is checked after every byte step: at every point of a build
\* the state list has at most StateLimit + 1 states, and as soon as a byte
\* step leaves more than StateLimit states the build has ended with the
\* error: no transition is computed with the count above the limit.
C16_LimitCheckedAfterEveryByte ==
  /\ Len(states) <= StateLimit + 1
  /\ Len(states) > StateLimit => pc = "err"
  /\ pc = "err" =>
       /\ Len(states) = StateLimit + 1
       /\ built = <<>>
       /\ \A c \in Bytes : c > b => states[s + 1].next[c] = Nil /\ c \notin filled[s + 1]

\* A build has ended with the error in the middle of a state's byte loop:
\* slots of the state being processed were never computed and states pushed
\* earlier are still on the worklist.
C16_Witness ==
  /\ pc = "err"
  /\ Len(states) = StateLimit + 1
  /\ b < NumBytes - 1
  /\ filled[s + 1] # Bytes
  /\ stack # <<>>


\* C18: in every step of a build the state list only grows at its end, every
\* state that exists keeps its index, signature and match flag, and a state
\* whose slots have all been written keeps the value of every slot (a later
\* write stores the value that is there).
C18_StatesAppendOnlyFilledFrozen ==
  [][/\ Len(states') >= Len(states)
     /\ \A i \in 1 .. Len(states) :
          /\ states'[i].insts = states[i].insts
          /\ states'[i].match = states[i].match
          /\ filled[i] = Bytes => states'[i].next = states[i].next]_vars

\* The start state, all slots written, is being processed a second time: a
\* slot of it has been written again, and states appended after it exist.
C18_Witness ==
  /\ pc = "loop"
  /\ s = 0
  /\ b > 0
  /\ popCount[1] = 2
  /\ filled[1] = Bytes
  /\ Len(states) > 1


\* C19 as claimed: for every Program whose Jmp / Split targets are in bounds,
\* no index the build adds to a scratch set or reads the Program at lies past
\* the Program: the closure of instruction 0 and the byte step of every state
\* on every byte stay inside it, the fall-through of a matching Range that is
\* the last instruction included.
C19_NoIndexPastProgram ==
  /\ add(insts, newSparseSet, 0).ok
  /\ \A i \in 1 .. Len(states) : \A c \in Bytes :
       run(insts, addAll(newSparseSet, states[i].insts, 1), c).ok
  /\ pc # "panic"

\* C20: for every closure set C the build interns (the closure of
\* instruction 0 in cur, the result of a byte step in next) and every byte,
\* dfa.run from the set rebuilt from the Range / Match members of C in their
\* order leaves the same set to, in the same insertion order, as dfa.run from
\* C with its Jmp / Split members.
C20_SignatureStepsLikeClosure ==
  \A C \in Interned : \A c \in Bytes :
    LET q == collect(insts, C, 0, <<>>, FALSE).insts
        fromSignature == run(insts, addAll(newSparseSet, q, 1), c)
        fromClosure == run(insts, C, c)
    IN  /\ fromSignature.to = fromClosure.to
        /\ fromSignature.ok = fromClosure.ok

\* A byte step has left a closure with Jmp / Split members and two Range
\* members that cover one byte, so the step from it adds in two turns.
C20_Witness ==
  /\ pc = "loop"
  /\ b > 0
  /\ \E k \in 1 .. Len(next) : InstAt(insts, next[k]).op \in {OpJmp, OpSplit}
  /\ \E c \in Bytes :
       /\ Cardinality({k \in 1 .. Len(next) :
                         InstAt(insts, next[k]).op = OpRange /\ InRange(InstAt(insts, next[k]), c)}) >= 2
       /\ run(insts, next, c).ok
       /\ Len(run(insts, next, c).to) >= 2

=============================================================================
